---- MODULE Spec2Model ----
(***************************************************************************)
(* SmartRepo: core/explorer.py (SemanticExplorer) and core/repo_loader.py. *)
(*                                                                         *)
(* Python strings are modelled as tuples of one-character strings, so that *)
(* `in`, split, join, slicing and concatenation are computed, not assumed. *)
(* A generator is modelled by its suspension point: one Pull is one        *)
(* next() of the driver, i.e. the code between two yields.                 *)
(***************************************************************************)
EXTENDS Integers, Sequences, FiniteSets, TLC

(***************************************************************************)
(* Bounds of the model.                                                    *)
(***************************************************************************)
\* generated plain files in the local directory (total entries > one batch)
NumLocalGen == 125
\* generated plain files in the repository (kept files > one batch)
NumRepoGen == 47
\* index_directory calls of a behaviour
MaxRuns == 2

(***************************************************************************)
(* Strings.                                                                *)
(***************************************************************************)
\* Python: sub in s
Contains(sub, s) ==
    \E k \in 0..(Len(s) - Len(sub)) : SubSeq(s, k + 1, k + Len(sub)) = sub

\* Python: s.startswith(p)
StartsWith(s, p) == Len(p) <= Len(s) /\ SubSeq(s, 1, Len(p)) = p

\* Python: s.split(c)
RECURSIVE Split(_, _)
Split(s, c) ==
    IF \A k \in 1..Len(s) : s[k] # c
    THEN <<s>>
    ELSE LET k == CHOOSE k \in 1..Len(s) : s[k] = c /\ \A j \in 1..(k - 1) : s[j] # c
         IN  <<SubSeq(s, 1, k - 1)>> \o Split(SubSeq(s, k + 1, Len(s)), c)

\* Python: c.join(parts)
RECURSIVE Join(_, _)
Join(parts, c) ==
    IF parts = <<>> THEN <<>>
    ELSE IF Len(parts) = 1 THEN parts[1]
    ELSE parts[1] \o <<c>> \o Join(Tail(parts), c)

\* Python: s.rstrip(c)
RECURSIVE RStrip(_, _)
RStrip(s, c) ==
    IF s # <<>> /\ s[Len(s)] = c THEN RStrip(SubSeq(s, 1, Len(s) - 1), c) ELSE s

\* Python: s.lstrip(c)
RECURSIVE LStrip(_, _)
LStrip(s, c) ==
    IF s # <<>> /\ s[1] = c THEN LStrip(Tail(s), c) ELSE s

\* Python: s.strip()  (the only whitespace of the model's alphabet is " ")
Strip(s) == RStrip(LStrip(s, " "), " ")

\* Python: s.lower()
UpperChars == <<"A","B","C","D","E","F","G","H","I","J","K","L","M","N","O","P","Q","R","S","T","U","V","W","X","Y","Z">>
LowerChars == <<"a","b","c","d","e","f","g","h","i","j","k","l","m","n","o","p","q","r","s","t","u","v","w","x","y","z">>
LowerChar(c) ==
    IF \E k \in 1..Len(UpperChars) : UpperChars[k] = c
    THEN LowerChars[CHOOSE k \in 1..Len(UpperChars) : UpperChars[k] = c]
    ELSE c
Lower(s) == [k \in 1..Len(s) |-> LowerChar(s[k])]

\* Python: s.rfind(c), 1-based, 0 when absent
RFind(s, c) ==
    IF \A k \in 1..Len(s) : s[k] # c THEN 0
    ELSE CHOOSE k \in 1..Len(s) : s[k] = c /\ \A j \in (k + 1)..Len(s) : s[j] # c

\* the elements of a sequence
Range(s) == {s[k] : k \in 1..Len(s)}

\* a variant of Slice: xs[i:i+n-1]
Slice_short(xs, i, n) == SubSeq(xs, i + 1, IF i + n - 1 < Len(xs) THEN i + n - 1 ELSE Len(xs))

\* Python: xs[i:i+n] with a 0-based start i
Slice(xs, i, n) == SubSeq(xs, i + 1, IF i + n < Len(xs) THEN i + n ELSE Len(xs))

Min(a, b) == IF a < b THEN a ELSE b

(***************************************************************************)
(* pathlib.Path as repo_loader.is_excluded uses it.                        *)
(***************************************************************************)
\* Path(p).parts for a relative path: empty and "." segments are dropped
PathParts(p) == SelectSeq(Split(p, "/"), LAMBDA seg : seg # <<>> /\ seg # <<".">>)

\* Path(p).as_posix()
AsPosix(p) ==
    IF StartsWith(p, <<"/">>) THEN <<"/">> \o Join(PathParts(p), "/")
    ELSE IF PathParts(p) = <<>> THEN <<".">>
    ELSE Join(PathParts(p), "/")

\* Path(p).name
PathName(p) == IF PathParts(p) = <<>> THEN <<>> ELSE PathParts(p)[Len(PathParts(p))]

\* Path(p).suffix: from the last dot of the name, unless that dot is the
\* first or the last character of the name
PathSuffix(p) ==
    LET name == PathName(p)
        i    == RFind(name, ".")
    IN  IF 1 < i /\ i < Len(name) THEN SubSeq(name, i, Len(name)) ELSE <<>>

(***************************************************************************)
(* repo_loader.py                                                          *)
(***************************************************************************)
EXCLUDE_EXTENSIONS ==
    {<<".","l","o","c","k">>,
     <<".","l","o","g">>,
     <<".","e","n","v">>,
     <<".","s","o">>,
     <<".","o">>,
     <<".","a">>,
     <<".","d","l","l">>,
     <<".","e","x","e">>,
     <<".","i","p","y","n","b">>,
     <<".","s","v","g">>,
     <<".","p","n","g">>,
     <<".","j","p","g">>,
     <<".","j","p","e","g">>,
     <<".","g","i","f">>,
     <<".","w","e","b","p">>,
     <<".","i","c","o">>,
     <<".","w","o","f","f">>,
     <<".","w","o","f","f","2">>,
     <<".","t","t","f">>,
     <<".","e","o","t">>,
     <<".","o","t","f">>}
EXCLUDE_FILENAMES ==
    {<<".","g","i","t","i","g","n","o","r","e">>,
     <<".","D","S","_","S","t","o","r","e">>,
     <<".","g","i","t","a","t","t","r","i","b","u","t","e","s">>}
EXCLUDE_PATTERNS ==
    {<<"_","_","p","y","c","a","c","h","e","_","_","/">>,
     <<".","g","i","t","/">>,
     <<"n","o","d","e","_","m","o","d","u","l","e","s","/">>,
     <<"d","i","s","t","/">>,
     <<"b","u","i","l","d","/">>,
     <<".","v","s","c","o","d","e","/">>,
     <<".","i","d","e","a","/">>}

\* is_excluded: `any(pattern in normalized_path for pattern in EXCLUDE_PATTERNS)`
MatchesExcludePattern(filepath) ==
    LET normalized_path == AsPosix(filepath) \o <<"/">>
    IN  \E pattern \in EXCLUDE_PATTERNS : Contains(pattern, normalized_path)

\* is_excluded(filepath)
is_excluded(filepath) ==
    \/ Lower(PathName(filepath)) \in EXCLUDE_FILENAMES
    \/ Lower(PathSuffix(filepath)) \in EXCLUDE_EXTENSIONS
    \/ MatchesExcludePattern(filepath)

\* get_remote_file_content(file_url, max_size=1_000_000)
max_size == 1000000

(***************************************************************************)
(* The hosting services the loader talks to: the repositories that exist,  *)
(* their blobs in listing order, and what a GET of each blob answers.      *)
(* size is the blob's byte length, has_nul whether a NUL byte lies in its  *)
(* first 1024 bytes, has_len whether the response carries content-length,  *)
(* flaky whether the request may fail with a network error.                *)
(***************************************************************************)
HexDigits == <<"0","1","2","3","4","5","6","7","8","9","a","b","c","d","e","f">>
GenName(prefix, i) == prefix \o <<HexDigits[(i \div 16) + 1], HexDigits[(i % 16) + 1]>>

Blob(path, size, has_nul, has_len, flaky) ==
    [path |-> path, size |-> size, has_nul |-> has_nul, has_len |-> has_len,
     flaky |-> flaky]

GitHubTree_o_r ==
    << Blob(<<".","e","n","v">>, 20, FALSE, TRUE, FALSE),
       Blob(<<"a",".","p","n","g">>, 900, TRUE, TRUE, FALSE),
       Blob(<<".","g","i","t","i","g","n","o","r","e">>, 10, FALSE, TRUE, FALSE),
       Blob(<<"n","o","d","e","_","m","o","d","u","l","e","s","/","x",".","j","s">>, 30, FALSE, TRUE, FALSE),
       Blob(<<"r","e","b","u","i","l","d">>, 40, FALSE, TRUE, FALSE),
       Blob(<<"m","y","d","i","s","t","/","x",".","p","y">>, 40, FALSE, TRUE, FALSE),
       Blob(<<"b","i","g",".","b","i","n">>, max_size + 1, FALSE, TRUE, FALSE),
       Blob(<<"h","u","g","e",".","t","x","t">>, max_size + 1, FALSE, FALSE, FALSE),
       Blob(<<"n","u","l",".","d","a","t">>, 50, TRUE, TRUE, FALSE),
       Blob(<<"n","e","t",".","p","y">>, 60, FALSE, TRUE, FALSE),
       Blob(<<"m",".","p","y">>, 70, FALSE, TRUE, FALSE) >>
    \o [i \in 1..NumRepoGen |-> Blob(GenName(<<"g">>, i) \o <<".","p","y">>, 100 + i, FALSE, TRUE, FALSE)]
    \o << Blob(<<"s","r","c","/","z",".","p","y">>, 80, FALSE, TRUE, TRUE) >>

HfSiblings_o_s ==
    << Blob(<<"a","p","p",".","p","y">>, 10, FALSE, TRUE, FALSE),
       Blob(<<"l","o","g","o",".","p","n","g">>, 10, TRUE, TRUE, FALSE) >>

\* the GitHub repositories that exist, by <<owner, repo>>
GitHubRepos ==
    [k \in {<<<<"o">>, <<"r">>>>, <<<<"o">>, <<"e">>>>} |->
        IF k = <<<<"o">>, <<"r">>>> THEN GitHubTree_o_r ELSE <<>>]
\* the Hugging Face spaces that exist, by <<owner, repo>>
HfSpaces == [k \in {<<<<"o">>, <<"s">>>>} |-> HfSiblings_o_s]

FileMeta(b) == [path |-> b.path, size |-> b.size]

\* _get_github_files(owner, repo): <<files, default_branch, error>>; net_ok is
\* whether the three API requests succeed on the network
_get_github_files(owner, repo, net_ok) ==
    IF net_ok /\ <<owner, repo>> \in DOMAIN GitHubRepos
    THEN [files |-> [k \in 1..Len(GitHubRepos[<<owner, repo>>]) |->
                        FileMeta(GitHubRepos[<<owner, repo>>][k])],
          error |-> FALSE]
    ELSE [files |-> <<>>, error |-> TRUE]

\* _get_hf_files(owner, repo): <<files, error>>
_get_hf_files(owner, repo, net_ok) ==
    IF net_ok /\ <<owner, repo>> \in DOMAIN HfSpaces
    THEN [files |-> [k \in 1..Len(HfSpaces[<<owner, repo>>]) |->
                        FileMeta(HfSpaces[<<owner, repo>>][k])],
          error |-> FALSE]
    ELSE [files |-> <<>>, error |-> TRUE]

\* get_repo_files(url): <<filtered_files, base_url, error_str>>; error is TRUE
\* when error_str is returned, and then files is None
get_repo_files(url, net_ok) ==
    LET parts == Split(RStrip(Strip(url), "/"), "/")
    IN  IF Len(parts) < 2
        THEN [files |-> <<>>, error |-> TRUE]
        ELSE LET owner  == parts[Len(parts) - 1]
                 repo   == parts[Len(parts)]
                 is_hf  == Contains(<<"h","u","g","g","i","n","g","f","a","c","e",".","c","o">>, Lower(url))
                 listed == IF is_hf THEN _get_hf_files(owner, repo, net_ok)
                           ELSE _get_github_files(owner, repo, net_ok)
             IN  IF listed.error \/ listed.files = <<>>
                 THEN [files |-> <<>>, error |-> TRUE]
                 ELSE [files |-> SelectSeq(listed.files,
                                           LAMBDA f : ~is_excluded(f.path)),
                       error |-> FALSE]

\* the blob a content URL of the repository at url designates
BlobAt(url, file_path) ==
    LET parts == Split(RStrip(Strip(url), "/"), "/")
        key   == <<parts[Len(parts) - 1], parts[Len(parts)]>>
        tree  == IF Contains(<<"h","u","g","g","i","n","g","f","a","c","e",".","c","o">>, Lower(url))
                 THEN HfSpaces[key] ELSE GitHubRepos[key]
    IN  tree[CHOOSE k \in 1..Len(tree) : tree[k].path = file_path]

\* get_remote_file_content(file_url): <<content, error_str>>, err TRUE when
\* error_str is returned; net_ok is whether the GET succeeds on the network
get_remote_file_content(b, net_ok) ==
    IF ~net_ok THEN [err |-> TRUE, why |-> "network"]
    ELSE IF b.has_len /\ b.size > max_size THEN [err |-> TRUE, why |-> "content-length"]
    ELSE IF b.size > max_size THEN [err |-> TRUE, why |-> "streaming"]
    ELSE IF b.has_nul THEN [err |-> TRUE, why |-> "binary"]
    ELSE [err |-> FALSE, why |-> "ok"]

(***************************************************************************)
(* The local filesystem: what scandir lists in each directory, in the      *)
(* order the operating system returns it.  `gone` (a variable) holds the   *)
(* files deleted since.                                                    *)
(***************************************************************************)
LocalDir == <<"d">>
NotADir  == <<"n","o","d","i","r">>

\* os.path.join(a, b)
os_path_join(a, b) ==
    IF a = <<>> \/ a[Len(a)] = "/" THEN a \o b ELSE a \o <<"/">> \o b

\* os.path.relpath(path, start), for a path under start
os_path_relpath(path, start) ==
    LET s == RStrip(start, "/")
    IN  SubSeq(path, Len(s) + 2, Len(path))

FsListing ==
    LET top == LocalDir
        nm  == os_path_join(top, <<"n","o","d","e","_","m","o","d","u","l","e","s">>)
        sub == os_path_join(top, <<"s">>)
    IN  [d \in {top, nm, sub} |->
          IF d = top
          THEN [files |-> << <<".","e","n","v">>, <<"a",".","p","n","g">>, <<"m",".","p","y">> >>
                          \o [i \in 1..NumLocalGen |-> GenName(<<"f">>, i)],
                dirs  |-> << <<"n","o","d","e","_","m","o","d","u","l","e","s">>, <<"s">> >>]
          ELSE IF d = nm
          THEN [files |-> << <<"x",".","j","s">> >>, dirs |-> <<>>]
          ELSE [files |-> << <<"t",".","p","y">> >>, dirs |-> <<>>]]

\* the file a behaviour may delete from the local directory
Deletable == {os_path_join(LocalDir, <<"m",".","p","y">>)}

VARIABLES
    collection,     \* the Chroma collection: id -> metadata
    is_cancelled,   \* SemanticExplorer.is_cancelled
    gen,            \* the generator object index_directory has returned
    gone,           \* local files deleted since the start
    ret,            \* what the last call returned, when it was clear_index
    settled,        \* observation: see Start
    nruns           \* the index_directory calls made so far

vars == <<collection, is_cancelled, gen, gone, ret, settled, nruns>>

\* os.path.isdir(p)
os_path_isdir(p) == RStrip(p, "/") \in DOMAIN FsListing

\* os.stat(p) succeeds (it raises FileNotFoundError otherwise)
os_stat_ok(p) == p \notin gone

\* the file and directory names os.walk finds in directory d
ScanFiles(d) ==
    SelectSeq(FsListing[RStrip(d, "/")].files, LAMBDA n : os_path_join(d, n) \notin gone)
ScanDirs(d) == FsListing[RStrip(d, "/")].dirs

ExcludedDirNames ==
    {<<".","g","i","t">>, <<"_","_","p","y","c","a","c","h","e","_","_">>, <<".","v","s","c","o","d","e">>, <<"n","o","d","e","_","m","o","d","u","l","e","s">>, <<".","i","d","e","a">>, <<"c","h","r","o","m","a","_","d","b">>}

\* _index_local_directory: all_paths after the os.walk loop has run through
RECURSIVE WalkPaths(_)
RECURSIVE WalkEach(_, _)
WalkPaths(root) ==
    LET files == ScanFiles(root)
        dirs  == SelectSeq(ScanDirs(root), LAMBDA d : d \notin ExcludedDirNames)
        names == files \o dirs
    IN  [k \in 1..Len(names) |-> os_path_join(root, names[k])] \o WalkEach(root, dirs)
WalkEach(root, dirs) ==
    IF dirs = <<>> THEN <<>>
    ELSE WalkPaths(os_path_join(root, dirs[1])) \o WalkEach(root, Tail(dirs))

(***************************************************************************)
(* The vector store (chromadb collection).                                 *)
(***************************************************************************)
\* collection.count()
Count == Cardinality(DOMAIN collection)

\* a variant of Upsert: the collection is replaced by the entries handed in
Upsert_replace(coll, ids, metadatas) ==
    [id \in Range(ids) |->
        metadatas[CHOOSE k \in 1..Len(ids) :
                     ids[k] = id /\ \A j \in (k + 1)..Len(ids) : ids[j] # id]]

\* collection.upsert(documents, metadatas, ids) as a new collection value: of
\* two entries with one id the later one is kept
Upsert(coll, ids, metadatas) ==
    LET new == Range(ids)
        old == DOMAIN coll \ new
        last(id) == CHOOSE k \in 1..Len(ids) :
                       ids[k] = id /\ \A j \in (k + 1)..Len(ids) : ids[j] # id
    IN  [id \in new |-> metadatas[last(id)]] @@ [id \in old |-> coll[id]]

\* a variant of Delete: the first id of the collection survives
Delete_butOne(coll, ids) ==
    [id \in DOMAIN coll \ (ids \ {CHOOSE x \in DOMAIN coll : TRUE}) |-> coll[id]]

\* collection.delete(ids) as a new collection value
Delete(coll, ids) == [id \in DOMAIN coll \ ids |-> coll[id]]

EmptyCollection == [id \in {} |-> 0]

(***************************************************************************)
(* explorer.py: SemanticExplorer, indexing.                                *)
(***************************************************************************)
\* _index_local_directory: batch_size
local_batch_size == 128
\* _index_repository: batch_size
repo_batch_size == 50

\* index_directory: the test that sends path_or_url to _index_repository
IsRepositoryUrl(path_or_url) ==
    \/ Contains(<<"g","i","t","h","u","b",".","c","o","m">>, path_or_url)
    \/ Contains(<<"h","u","g","g","i","n","g","f","a","c","e",".","c","o">>, path_or_url)

\* the strings index_directory is called with: a directory, a path that is no
\* directory, a repository, a URL without owner/repo, an empty repository
IndexArgs ==
    {LocalDir, NotADir, <<"g","i","t","h","u","b",".","c","o","m","/","o","/","r">>, <<"h","u","g","g","i","n","g","f","a","c","e",".","c","o">>, <<"g","i","t","h","u","b",".","c","o","m","/","o","/","e">>}

\* the repository URLs among them
RepoArgs == {a \in IndexArgs : IsRepositoryUrl(a)}

\* get_repo_files(repo_url) for each of them, with the network up and down
Listings == [a \in RepoArgs |-> [net_ok \in BOOLEAN |-> get_repo_files(a, net_ok)]]

\* the blob behind file_url, for each file get_repo_files lists
Blobs ==
    [a \in RepoArgs |->
        [file_path \in {Listings[a][TRUE].files[k].path :
                           k \in 1..Len(Listings[a][TRUE].files)} |->
            BlobAt(a, file_path)]]

\* a variant of LocalId: the id also carries the number of the run
LocalId_perRun(path_str) ==
    <<"l","o","c","a","l",":",":">> \o path_str \o <<":", HexDigits[nruns + 1]>>

\* _index_local_directory: unique_id = f"local::{path_str}"
LocalId(path_str) == <<"l","o","c","a","l",":",":">> \o path_str

\* _index_repository: unique_id = f"repo::{repo_url}::{file_path}"
RepoId(repo_url, file_path) == <<"r","e","p","o",":",":">> \o repo_url \o <<":",":">> \o file_path

\* a yielded status string: its phrasing (kind) and the numbers it prints
Status(kind, num, upto, total) ==
    [kind |-> kind, num |-> num, upto |-> upto, total |-> total]

\* f"Processing batch {i//batch_size + 1}... ({min(i+batch_size, total)}/{total})"
BatchStatus(i, batch_size, total) ==
    Status("batch", (i \div batch_size) + 1, Min(i + batch_size, total), total)

\* a variant of FinalStatus: the "complete" phrasing whatever the flag
FinalStatus_alwaysComplete(cancelled, final_count) ==
    Status("complete", final_count, 0, 0)

\* the final status of both variants
FinalStatus(cancelled, final_count) ==
    IF cancelled THEN Status("cancelled", final_count, 0, 0)
    ELSE Status("complete", final_count, 0, 0)

\* a fraction handed to progress_callback, as the exact quotient num / den
Frac(num, den) == [num |-> num, den |-> den]

\* _index_local_directory: progress_fraction = i / total_paths
LocalFraction(i, total) == Frac(i, total)

\* a variant of RepoFraction: the fraction is not rescaled
RepoFraction_unscaled(i, total) == Frac(i, total)

\* _index_repository: progress_fraction = (i / total_files) * 0.95 + 0.05
RepoFraction(i, total) == Frac(95 * i + 5 * total, 100 * total)

\* _index_local_directory: the except clause of the per-path try block
LocalLoopCatches(exc) == exc = "FileNotFoundError"

\* os.stat(path_str): "ok" or the exception it raises
os_stat(path_str) == IF os_stat_ok(path_str) THEN "ok" ELSE "FileNotFoundError"

\* _index_local_directory: the metadata of one path
LocalMetadata(path_str, root_path) ==
    [relative_path |-> os_path_relpath(path_str, root_path),
     is_dir        |-> os_path_isdir(path_str),
     source_type   |-> "local",
     repo_url      |-> <<>>]

\* _index_local_directory: the body of one batch; raised when an exception
\* leaves the per-path loop, else the ids and metadatas handed to upsert
LocalBatch(batch_paths, root_path) ==
    LET kept == SelectSeq(batch_paths, LAMBDA p : os_stat(p) = "ok")
    IN  [raised    |-> \E k \in 1..Len(batch_paths) :
                          /\ os_stat(batch_paths[k]) # "ok"
                          /\ ~LocalLoopCatches(os_stat(batch_paths[k])),
         ids       |-> [k \in 1..Len(kept) |-> LocalId(kept[k])],
         metadatas |-> [k \in 1..Len(kept) |-> LocalMetadata(kept[k], root_path)]]

\* a variant of RepoLoopSkips: the error of a fetch is not looked at
RepoLoopSkips_never(fetched) == FALSE

\* _index_repository: `if err: continue`
RepoLoopSkips(fetched) == fetched.err

\* _index_repository: the metadata of one file
RepoMetadata(file_path, repo_url) ==
    [relative_path |-> file_path,
     is_dir        |-> FALSE,
     source_type   |-> "repository",
     repo_url      |-> repo_url]

\* _index_repository: the body of one batch; net_fail are the files of the
\* batch whose GET fails on the network.  content[:500] of a None content
\* raises TypeError.
RepoBatch(batch_files, repo_url, net_fail) ==
    LET Fetch(f) == get_remote_file_content(Blobs[repo_url][f.path],
                                            f.path \notin net_fail)
        kept     == SelectSeq(batch_files, LAMBDA f : ~RepoLoopSkips(Fetch(f)))
    IN  [raised    |-> \E k \in 1..Len(kept) : Fetch(kept[k]).err,
         ids       |-> [k \in 1..Len(kept) |-> RepoId(repo_url, kept[k].path)],
         metadatas |-> [k \in 1..Len(kept) |-> RepoMetadata(kept[k].path, repo_url)]]

\* the files of a batch whose GET may fail on the network
FlakyIn(batch_files, repo_url) ==
    {batch_files[k].path : k \in {j \in 1..Len(batch_files) :
                                    Blobs[repo_url][batch_files[j].path].flaky}}

(***************************************************************************)
(* The generator object.  The driver holds one at a time (the cooperative  *)
(* single-threaded driver of the design); pc is the yield at which it is   *)
(* suspended:                                                              *)
(*   none       no generator             created   made, body not entered  *)
(*   l_scan     "Scanning directories..."                                  *)
(*   l_found    "Scan complete. Found ..."                                 *)
(*   l_batch    "Processing batch ..." of _index_local_directory           *)
(*   r_fetch    "Fetching repository file list..."                         *)
(*   r_found    "Found ... files to process."                              *)
(*   r_batch    "Processing batch ..." of _index_repository                *)
(*   final      the last yield of the body (error, cancelled or complete)  *)
(*   raised     an exception left the body                                 *)
(* The next() that ends the body (StopIteration) frees the generator.      *)
(***************************************************************************)
NoRequest == [set |-> FALSE, pc |-> "none", nb |-> 0]

NewGen ==
    [pc |-> "none", arg |-> <<>>, items |-> <<>>, i |-> 0, out |-> <<>>,
     progress |-> <<>>,         \* the fractions handed to progress_callback
     \* observations of the run, read by no action:
     alone       |-> FALSE,     \* no clear_index call since it began
     fs_same     |-> FALSE,     \* no file deleted since it began
     second      |-> FALSE,     \* it re-indexes a settled directory (see Start)
     start_empty |-> FALSE,     \* the index was empty when it began
     skipped     |-> {},        \* the entries (positions in items) of the
                                \* batches it processed that it did not upsert
     nbatch      |-> 0,         \* batches it processed
     wrote       |-> 0,         \* upsert calls it made
     net_fail    |-> {},        \* the GETs of its last batch that failed on the network
     creq        |-> NoRequest] \* the first cancel_indexing call since the flag
                                \* was last reset (one before the first next()
                                \* when there is none since)

Suspended(pc) ==
    pc \in {"l_scan", "l_found", "l_batch", "r_fetch", "r_found", "r_batch", "final"}

BatchesYielded(out) == Len(SelectSeq(out, LAMBDA s : s.kind = "batch"))

LastOf(out) == out[Len(out)]

NoCall == [op |-> "none", val |-> 0]
Call(op, val) == [op |-> op, val |-> val]

\* the index contents a SemanticExplorer is constructed on: a new db_path,
\* or one where an earlier session indexed a file of the local directory
\* that has been deleted since
PersistedIndexes ==
    {EmptyCollection,
     Upsert(EmptyCollection,
            <<LocalId(os_path_join(LocalDir, <<"o","l","d",".","p","y">>))>>,
            <<[relative_path |-> <<"o","l","d",".","p","y">>, is_dir |-> FALSE,
               source_type |-> "local", repo_url |-> <<>>]>>)}

Init ==
    /\ is_cancelled = FALSE
    /\ gen = NewGen
    /\ gone = {}
    /\ ret = NoCall
    /\ settled = {}
    /\ nruns = 0
    /\ collection \in PersistedIndexes

\* index_directory(path_or_url): makes the generator, runs nothing of its body
IndexDirectory(arg) ==
    /\ gen.pc = "none"
    /\ nruns < MaxRuns
    /\ nruns' = nruns + 1
    /\ gen' = [gen EXCEPT !.pc = "created", !.arg = arg]
    /\ ret' = NoCall
    /\ UNCHANGED <<collection, is_cancelled, gone, settled>>

\* first next(): index_directory's body up to the first yield of the variant.
\* settled holds the argument of the last run to end when that run ended
\* "complete" and no clear_index call was made and no file deleted since it
\* began.
Start ==
    /\ gen.pc = "created"
    /\ is_cancelled' = FALSE
    /\ LET a   == gen.arg
           pc2 == IF IsRepositoryUrl(a) THEN "r_fetch"
                  ELSE IF ~os_path_isdir(a) THEN "final" ELSE "l_scan"
           st  == IF IsRepositoryUrl(a) THEN Status("fetching", 0, 0, 0)
                  ELSE IF ~os_path_isdir(a) THEN Status("error", 0, 0, 0)
                  ELSE Status("scanning", 0, 0, 0)
       IN  gen' = [gen EXCEPT !.pc = pc2, !.out = <<st>>,
                              !.progress = IF st.kind = "error" THEN <<>>
                                           ELSE <<Frac(0, 1)>>,
                              !.alone = TRUE,
                              !.fs_same = TRUE,
                              !.second = (a \in settled),
                              !.start_empty = (Count = 0)]
    /\ ret' = NoCall
    /\ settled' = {}
    /\ UNCHANGED <<collection, gone, nruns>>

\* next() at "Scanning directories...": the os.walk loop
LocalScan ==
    /\ gen.pc = "l_scan"
    /\ LET all_paths == IF is_cancelled THEN <<>> ELSE WalkPaths(gen.arg)
           st == IF is_cancelled THEN Status("cancelled", Count, 0, 0)
                 ELSE Status("found", Len(all_paths), 0, Len(all_paths))
       IN  gen' = [gen EXCEPT !.pc = IF is_cancelled THEN "final" ELSE "l_found",
                              !.items = all_paths,
                              !.progress = IF is_cancelled THEN @
                                           ELSE Append(@, Frac(5, 100)),
                              !.out = Append(@, st)]
    /\ ret' = NoCall
    /\ UNCHANGED <<collection, is_cancelled, gone, settled, nruns>>

\* a variant of LoopContinues: the loop ends after its first batch
LoopContinues_oneBatch(nexti, total) == nexti < total /\ ~is_cancelled /\ nexti = 0

\* a variant of LoopContinues: the loop does not look at the flag
LoopContinues_noFlag(nexti, total) == nexti < total

\* `for i in range(0, total, batch_size): if self.is_cancelled: break`:
\* whether the loop enters the batch that starts at nexti
LoopContinues(nexti, total) == nexti < total /\ ~is_cancelled

\* the step from one yield of a batch loop to the next: the body of the batch
\* whose status was yielded (none at the "found" yield), then the loop test;
\* batch_ids are the ids of the entries of the batch, read or not
LoopStep(batch_size, batch, pc_batch, net_fail, batch_ids) ==
    LET total == Len(gen.items)
        in_batch == gen.pc = pc_batch
        nexti == IF in_batch THEN gen.i + batch_size ELSE 0
        coll2 == IF in_batch /\ ~batch.raised /\ batch.ids # <<>>
                 THEN Upsert(collection, batch.ids, batch.metadatas)
                 ELSE collection
        upserted == Range(batch.ids)
        more  == LoopContinues(nexti, total)
        st    == IF more THEN BatchStatus(nexti, batch_size, total)
                 ELSE FinalStatus(is_cancelled, Cardinality(DOMAIN coll2))
        obs   == [gen EXCEPT
                    !.nbatch  = IF in_batch THEN @ + 1 ELSE @,
                    !.net_fail = net_fail,
                    !.wrote   = IF in_batch /\ batch.ids # <<>> THEN @ + 1 ELSE @,
                    !.skipped = IF in_batch
                                THEN @ \cup {gen.i + k : k \in
                                       {j \in 1..Len(batch_ids) :
                                          batch_ids[j] \notin upserted}}
                                ELSE @]
    IN  IF in_batch /\ batch.raised
        THEN /\ gen' = [gen EXCEPT !.pc = "raised"]
             /\ UNCHANGED <<collection, settled>>
        ELSE /\ collection' = coll2
             /\ gen' = [obs EXCEPT !.pc = IF more THEN pc_batch ELSE "final",
                                   !.i = nexti,
                                   !.progress =
                                       IF more
                                       THEN Append(@, IF pc_batch = "l_batch"
                                                      THEN LocalFraction(nexti, total)
                                                      ELSE RepoFraction(nexti, total))
                                       ELSE IF is_cancelled THEN @
                                       ELSE Append(@, Frac(1, 1)),
                                   !.out = Append(@, st)]
             /\ settled' = IF ~more /\ ~is_cancelled /\ gen.alone /\ gen.fs_same
                           THEN {gen.arg} ELSE {}

NoBatch == [raised |-> FALSE, ids |-> <<>>, metadatas |-> <<>>]

\* next() at "Scan complete..." or at "Processing batch ..." (local)
LocalStep ==
    /\ gen.pc \in {"l_found", "l_batch"}
    /\ LoopStep(local_batch_size,
                IF gen.pc = "l_batch"
                THEN LocalBatch(Slice(gen.items, gen.i, local_batch_size), gen.arg)
                ELSE NoBatch,
                "l_batch", {},
                LET batch_paths == Slice(gen.items, gen.i, local_batch_size)
                IN  [k \in 1..Len(batch_paths) |-> LocalId(batch_paths[k])])
    /\ ret' = NoCall
    /\ UNCHANGED <<is_cancelled, gone, nruns>>

\* a variant of ListingErrorHandled: the error of the listing is not looked at
ListingErrorHandled_never(listed) == FALSE

\* _index_repository: `if error:` after get_repo_files
ListingErrorHandled(listed) == listed.error

\* next() at "Fetching repository file list...": get_repo_files; len(files)
\* of a None files raises TypeError
RepoList ==
    /\ gen.pc = "r_fetch"
    /\ \E net_ok \in BOOLEAN :
         LET listed == Listings[gen.arg][net_ok]
             st == IF ListingErrorHandled(listed) THEN Status("error", 0, 0, 0)
                   ELSE Status("found", Len(listed.files), 0, Len(listed.files))
         IN  gen' = [gen EXCEPT
                       !.pc = IF ListingErrorHandled(listed) THEN "final"
                              ELSE IF listed.error THEN "raised" ELSE "r_found",
                       !.items = listed.files,
                       !.progress = IF listed.error THEN @
                                    ELSE Append(@, Frac(5, 100)),
                       !.out = IF ~ListingErrorHandled(listed) /\ listed.error
                               THEN @ ELSE Append(@, st)]
    /\ ret' = NoCall
    /\ UNCHANGED <<collection, is_cancelled, gone, settled, nruns>>

\* next() at "Found ... files" or at "Processing batch ..." (repository)
RepoStep ==
    /\ gen.pc \in {"r_found", "r_batch"}
    /\ LET batch_files == Slice(gen.items, gen.i, repo_batch_size)
       IN  \E net_fail \in (IF gen.pc = "r_batch"
                            THEN SUBSET FlakyIn(batch_files, gen.arg) ELSE {{}}) :
             LoopStep(repo_batch_size,
                      IF gen.pc = "r_batch"
                      THEN RepoBatch(batch_files, gen.arg, net_fail)
                      ELSE NoBatch,
                      "r_batch", net_fail,
                      [k \in 1..Len(batch_files) |->
                          RepoId(gen.arg, batch_files[k].path)])
    /\ ret' = NoCall
    /\ UNCHANGED <<is_cancelled, gone, nruns>>

\* next() at the last yield of the body: the body returns (StopIteration) and
\* the driver lets go of the generator
Finish ==
    /\ gen.pc = "final"
    /\ gen' = NewGen
    /\ ret' = NoCall
    /\ UNCHANGED <<collection, is_cancelled, gone, settled, nruns>>

\* cancel_indexing()
CancelIndexing ==
    /\ is_cancelled' = TRUE
    /\ gen' = IF gen.pc # "none" /\ (~gen.creq.set \/ gen.creq.pc = "created")
              THEN [gen EXCEPT !.creq = [set |-> TRUE, pc |-> gen.pc,
                                         nb |-> BatchesYielded(gen.out)]]
              ELSE gen
    /\ ret' = NoCall
    /\ UNCHANGED <<collection, gone, settled, nruns>>

\* get_status(): the count it prints, 0 standing for the "Index is empty" text
get_status == IF Count > 0 THEN Count ELSE 0

\* a get_status() call: it changes nothing
GetStatus ==
    /\ get_status \in Nat
    /\ UNCHANGED vars

\* clear_index()
ClearIndex ==
    /\ LET count == Count
           ids_to_delete == IF count > 0 THEN DOMAIN collection ELSE {}
       IN  /\ collection' = IF ids_to_delete # {} THEN Delete(collection, ids_to_delete)
                            ELSE collection
           /\ ret' = Call("clear_index", count)
    /\ gen' = [gen EXCEPT !.alone = FALSE, !.second = FALSE]
    /\ settled' = {}
    /\ UNCHANGED <<is_cancelled, gone, nruns>>

\* a file of the local directory is deleted behind the program's back
FsRemove(path) ==
    /\ path \notin gone
    /\ gone' = gone \cup {path}
    /\ gen' = [gen EXCEPT !.fs_same = FALSE, !.second = FALSE]
    /\ settled' = {}
    /\ UNCHANGED <<collection, is_cancelled, ret, nruns>>

Next ==
    \/ \E arg \in IndexArgs : IndexDirectory(arg)
    \/ Start
    \/ LocalScan
    \/ LocalStep
    \/ RepoList
    \/ RepoStep
    \/ Finish
    \/ CancelIndexing
    \/ GetStatus
    \/ ClearIndex
    \/ \E path \in Deletable : FsRemove(path)

Spec == Init /\ [][Next]_vars

(***************************************************************************)
(* Properties.                                                             *)
(***************************************************************************)
\* a step that is a next() of the generator
PullStep == gen'.pc # gen.pc \/ gen'.out # gen.out \/ gen'.i # gen.i

IsLocalRun == gen.pc # "none" /\ ~IsRepositoryUrl(gen.arg)

\* C1: a run over a local directory that was indexed completely by the run
\* before it, with the same root string, nothing having changed the directory
\* or cleared the index since that run began, leaves the set of ids (and so
\* the item count) as the first run left it: none of its steps adds or
\* removes an id.
C1_ReindexSameIds ==
    [][(gen.second /\ gen'.second /\ IsLocalRun)
         => (DOMAIN collection' = DOMAIN collection
             /\ Cardinality(DOMAIN collection') = Cardinality(DOMAIN collection))]_vars

\* a second run over the unchanged local directory has processed both of its
\* batches and yielded "complete"
C1_Witness ==
    /\ gen.pc = "final" /\ gen.second /\ IsLocalRun
    /\ LastOf(gen.out).kind = "complete"
    /\ gen.nbatch = 2 /\ gen.wrote = 2
    /\ LastOf(gen.out).num = Len(gen.items)

\* the yields of a stream that is still running: all but its last
RunningYields == {"l_scan", "l_found", "l_batch", "r_fetch", "r_found", "r_batch"}

\* what is asked of a stream once cancel_indexing was called at one of the
\* running yields: no exception, no batch status beyond those yielded when it
\* was called, no batch processed beyond those, and a last status of one of
\* the kinds endings gives for that yield that, when it says "cancelled",
\* carries the item count of the moment it is yielded
StopsAfterCancel(endings) ==
    (gen'.creq.set /\ gen'.creq.pc \in RunningYields /\ gen'.pc # "none")
      => /\ gen'.pc # "raised"
         /\ BatchesYielded(gen'.out) = gen'.creq.nb
         /\ gen'.nbatch <= gen'.creq.nb
         /\ gen'.pc = "final"
              => /\ LastOf(gen'.out).kind \in endings[gen'.creq.pc]
                 /\ (PullStep /\ LastOf(gen'.out).kind = "cancelled")
                      => LastOf(gen'.out).num = Cardinality(DOMAIN collection')

OnlyCancelled == [pc \in RunningYields |-> {"cancelled"}]

\* C2 as stated: cancel_indexing between two pulls of a running stream ends
\* the stream within one batch boundary (at most the batch whose status was
\* already yielded is processed, no later batch is started), the last status
\* says "cancelled" with the partial item count, and nothing is raised. The
\* stream is read as running until it has yielded its last status.
C2_AsStated ==
    [][StopsAfterCancel(OnlyCancelled)]_vars

CancelledOrListingError ==
    [pc \in RunningYields |->
        IF pc = "r_fetch" THEN {"cancelled", "error"} ELSE {"cancelled"}]

\* C2: cancel_indexing between two pulls of a running stream, at a yield that
\* is not the stream's last, ends the stream within one batch boundary (at
\* most the batch whose status was already yielded is processed, no later
\* batch is started) and nothing is raised; the last status says "cancelled"
\* with the item count of that moment, except that a repository run cancelled
\* at "Fetching repository file list..." ends with the listing's "Error: ..."
\* when the listing fails.
C2_CancelStopsStream ==
    [][StopsAfterCancel(CancelledOrListingError)]_vars

\* a local run cancelled at the status of its first batch has processed that
\* batch alone and ended "cancelled" with the partial count
C2_Witness ==
    /\ gen.pc = "final" /\ IsLocalRun
    /\ gen.creq.set /\ gen.creq.pc = "l_batch" /\ gen.creq.nb = 1
    /\ Len(gen.items) > local_batch_size
    /\ gen.nbatch = 1
    /\ LastOf(gen.out).kind = "cancelled"
    /\ LastOf(gen.out).num = local_batch_size
    /\ Count = local_batch_size

\* the run that has just yielded its last status began on an empty index,
\* was not cancelled, and no clear_index call was made since it began
CompletedFromEmpty ==
    /\ gen.pc = "final"
    /\ LastOf(gen.out).kind = "complete"
    /\ gen.start_empty /\ gen.alone

\* C3 as stated: after a run that began on an empty index and completed
\* without cancellation, get_status reports as many items as the source has
\* non-excluded entries (the paths of the scan, the files of the filtered
\* listing).  Read for a source that no one changes while the run goes on.
C3_AsStated ==
    (CompletedFromEmpty /\ gen.fs_same) => get_status = Len(gen.items)

\* an entry the run cannot read: a repository file whose fetch fails (over the
\* byte cap, binary, or a GET that may fail on the network), a local path
\* deleted after the scan listed it
Unreadable(item) ==
    IF IsRepositoryUrl(gen.arg)
    THEN \/ get_remote_file_content(Blobs[gen.arg][item.path], TRUE).err
         \/ Blobs[gen.arg][item.path].flaky
    ELSE item \in gone

\* C3: after a run that began on an empty index and completed without
\* cancellation, get_status reports the number of non-excluded entries of the
\* source minus those the run skipped, and it skipped only entries it could
\* not read (failed fetch, vanished path).
C3_CountIsEntriesRead ==
    CompletedFromEmpty
      => /\ get_status = Len(gen.items) - Cardinality(gen.skipped)
         /\ \A k \in gen.skipped : Unreadable(gen.items[k])

\* a repository run over two batches of listed files completed from an empty
\* index with the over-cap and binary files skipped
C3_Witness ==
    /\ CompletedFromEmpty
    /\ IsRepositoryUrl(gen.arg)
    /\ gen.nbatch = 2
    /\ Cardinality(gen.skipped) >= 3
    /\ get_status > repo_batch_size
    /\ get_status < Len(gen.items)

\* a relative path the exclusion rules name: a file called .env, a file with
\* extension .png, a path under node_modules/
NamedByExclusionRules(rel) ==
    \/ PathName(rel) = <<".","e","n","v">>
    \/ PathSuffix(rel) = <<".","p","n","g">>
    \/ StartsWith(rel, <<"n","o","d","e","_","m","o","d","u","l","e","s","/">>)
    \/ Contains(<<"/","n","o","d","e","_","m","o","d","u","l","e","s","/">>, rel)

\* C4 as stated: no file named .env, no file with extension .png and no path
\* under node_modules/ is in the index after a local or repository run over
\* a tree that contains them, the index not holding them before.
C4_AsStated ==
    \A id \in DOMAIN collection :
        ~NamedByExclusionRules(collection[id].relative_path)

\* a repository run has completed and the index holds the repository's .env
\* (and neither its a.png nor its node_modules/x.js)
C4_Witness ==
    /\ gen.pc = "final" /\ IsRepositoryUrl(gen.arg)
    /\ LastOf(gen.out).kind = "complete"
    /\ RepoId(gen.arg, <<".","e","n","v">>) \in DOMAIN collection
    /\ RepoId(gen.arg, <<"a",".","p","n","g">>) \notin DOMAIN collection
    /\ RepoId(gen.arg, <<"n","o","d","e","_","m","o","d","u","l","e","s","/","x",".","j","s">>) \notin DOMAIN collection

\* a step that is a clear_index() call
ClearStep == ret'.op = "clear_index" /\ gone' = gone

\* C6: a clear_index call returns the count held before it and leaves the
\* store at count 0; on an index that is already empty (as after an earlier
\* clear_index) it returns 0 and changes nothing.  This holds wherever the
\* call falls among index_directory runs, complete or cancelled.
C6_ClearReturnsPriorCount ==
    [][ClearStep
         => /\ ret'.val = Cardinality(DOMAIN collection)
            /\ Cardinality(DOMAIN collection') = 0
            /\ Cardinality(DOMAIN collection) = 0
                 => /\ ret'.val = 0
                    /\ collection' = collection
                    /\ is_cancelled' = is_cancelled]_vars

\* clear_index has emptied an index of more than one repository batch, after
\* a run that was cancelled
C6_Witness ==
    /\ ret.op = "clear_index" /\ ret.val > repo_batch_size
    /\ Count = 0
    /\ nruns >= 1 /\ is_cancelled

\* the files of the repository batch at position i whose fetch fails when the
\* GETs in net_fail fail on the network
FailedFetches(net_fail) ==
    LET batch_files == Slice(gen.items, gen.i, repo_batch_size)
    IN  {batch_files[k].path : k \in {j \in 1..Len(batch_files) :
            get_remote_file_content(Blobs[gen.arg][batch_files[j].path],
                                    batch_files[j].path \notin net_fail).err}}

BatchPaths ==
    LET batch_files == Slice(gen.items, gen.i, repo_batch_size)
    IN  {batch_files[k].path : k \in 1..Len(batch_files)}

\* C9: the step that processes a repository batch adds to the index exactly
\* the ids of the batch's files whose fetch succeeded (a file whose fetch
\* fails on the byte cap, the binary test or the network is not added),
\* raises nothing, and goes on to the next batch when there is one and the
\* run is not cancelled.
C9_FailedFetchSkipped ==
    [][(gen.pc = "r_batch" /\ PullStep)
         => /\ gen'.pc \in {"r_batch", "final"}
            /\ DOMAIN collection' =
                 DOMAIN collection \cup
                   {RepoId(gen.arg, p) : p \in BatchPaths \ FailedFetches(gen'.net_fail)}
            /\ \A p \in FailedFetches(gen'.net_fail) :
                 RepoId(gen.arg, p) \in DOMAIN collection'
                   => RepoId(gen.arg, p) \in DOMAIN collection
            /\ (gen.i + repo_batch_size < Len(gen.items) /\ ~is_cancelled)
                 => gen'.pc = "r_batch"]_vars

\* a repository run completed from an empty index over two batches: the file
\* over the cap by its header, the one over the cap while streaming and the
\* binary one of the first batch and the file of the second batch whose GET
\* failed are absent, the 50 others are indexed
C9_Witness ==
    /\ CompletedFromEmpty /\ IsRepositoryUrl(gen.arg)
    /\ gen.nbatch = 2
    /\ gen.net_fail = {<<"s","r","c","/","z",".","p","y">>}
    /\ Cardinality(gen.skipped) = 4
    /\ Count = Len(gen.items) - 4
    /\ RepoId(gen.arg, <<"b","i","g",".","b","i","n">>) \notin DOMAIN collection
    /\ RepoId(gen.arg, <<"h","u","g","e",".","t","x","t">>) \notin DOMAIN collection
    /\ RepoId(gen.arg, <<"n","u","l",".","d","a","t">>) \notin DOMAIN collection
    /\ RepoId(gen.arg, <<"s","r","c","/","z",".","p","y">>) \notin DOMAIN collection
    /\ RepoId(gen.arg, <<"m",".","p","y">>) \in DOMAIN collection

ErrorsYielded(out) == Len(SelectSeq(out, LAMBDA s : s.kind = "error"))

\* C10: the first next() of index_directory on a local path that is no
\* directory, and the next() that fetches the file listing of a repository
\* URL when the listing fails (malformed URL, API or network error, no files
\* found), yield one "Error: ..." status as the stream's last, raise nothing
\* and leave the index content as it was; a run that ended so has made no
\* upsert.
C10_ErrorEndsStreamIndexKept ==
    [][/\ (gen.pc = "created" /\ PullStep /\ ~IsRepositoryUrl(gen.arg)
             /\ ~os_path_isdir(gen.arg))
            => /\ gen'.pc = "final"
               /\ gen'.out = <<Status("error", 0, 0, 0)>>
               /\ collection' = collection
       /\ (gen.pc = "created" /\ PullStep /\ IsRepositoryUrl(gen.arg))
            => /\ gen'.pc = "r_fetch"
               /\ collection' = collection
       /\ (gen.pc = "r_fetch" /\ PullStep)
            => /\ gen'.pc \in {"r_found", "final"}
               /\ collection' = collection
               /\ Listings[gen.arg][TRUE].error => gen'.pc = "final"
               /\ gen'.pc = "final"
                    => /\ gen'.out = Append(gen.out, Status("error", 0, 0, 0))
                       /\ ErrorsYielded(gen'.out) = 1
                       /\ gen'.wrote = 0 /\ gen'.nbatch = 0]_vars

\* a repository run whose listing failed has ended with the error status on
\* an index that an earlier run filled, which it has left as it was
C10_Witness ==
    /\ gen.pc = "final" /\ IsRepositoryUrl(gen.arg)
    /\ LastOf(gen.out).kind = "error"
    /\ gen.alone /\ ~gen.start_empty
    /\ gen.wrote = 0
    /\ Count > local_batch_size

(***************************************************************************)
(* explorer.py: SemanticExplorer.search.  A Python dict is a function on   *)
(* its keys; metadata_filters is None or a dict.                           *)
(***************************************************************************)
MaxN == 2

None == [is_none |-> TRUE, d |-> <<>>]
Dict(d) == [is_none |-> FALSE, d |-> d]

\* Python truth value of metadata_filters: None and {} are false
Truthy(mf) == ~mf.is_none /\ DOMAIN mf.d # {}

\* del d[key]
DictWithout(d, key) == [k \in DOMAIN d \ {key} |-> d[k]]

\* the conditions a caller combines: relative_path contains ".py",
\* relative_path contains "s/", source_type is "local", relative_path
\* equals "m.py"
CondPy    == "relative_path" :> ("$contains" :> <<".","p","y">>)
CondS     == "relative_path" :> ("$contains" :> <<"s","/">>)
CondLocal == "source_type" :> ("$eq" :> "local")
CondEq    == "relative_path" :> ("$eq" :> <<"m",".","p","y">>)

\* the filter expressions search is called with
FilterExprs ==
    {None, Dict(<<>>)}
      \cup {Dict(c) : c \in {CondPy, CondS, CondLocal, CondEq}}
      \cup {Dict("$and" :> l) :
              l \in {<<CondPy>>, <<CondPy, CondS>>, <<CondS, CondPy>>,
                     <<CondPy, CondLocal>>, <<CondLocal, CondS>>,
                     <<CondEq, CondPy>>, <<CondLocal, CondEq>>}}

\* search: `'relative_path' in cond and '$contains' in cond['relative_path']`
IsPathContains(cond) ==
    "relative_path" \in DOMAIN cond /\ "$contains" \in DOMAIN cond["relative_path"]

\* path_contains_filter = None; None and '' are both false at its one use
NoPathFilter == <<>>

\* a variant of extract_path_filter: the conditions are all returned
extract_path_filter_keepsAll(conditions) ==
    [remaining_conditions |-> conditions,
     path_contains_filter |->
         IF \A k \in 1..Len(conditions) : ~IsPathContains(conditions[k])
         THEN NoPathFilter
         ELSE conditions[CHOOSE k \in 1..Len(conditions) :
                            /\ IsPathContains(conditions[k])
                            /\ \A j \in (k + 1)..Len(conditions) :
                                  ~IsPathContains(conditions[j])]["relative_path"]["$contains"]]

\* search.extract_path_filter: the conditions it returns and the value it
\* leaves in path_contains_filter (each match overwrites the one before)
extract_path_filter(conditions) ==
    LET hits == {k \in 1..Len(conditions) : IsPathContains(conditions[k])}
        last == CHOOSE k \in hits : \A j \in hits : j <= k
    IN  [remaining_conditions |->
             SelectSeq(conditions, LAMBDA cond : ~IsPathContains(cond)),
         path_contains_filter |->
             IF hits = {} THEN NoPathFilter
             ELSE conditions[last]["relative_path"]["$contains"]]

(***************************************************************************)
(* The objects search works on.  A dict and the list under its $and key    *)
(* are objects of the heap, held by reference: the caller's mapping is the *)
(* dict at "mf" and its list is at "and"; search allocates "db" and "rem". *)
(***************************************************************************)
\* the heap with the object at addr set to obj
Store(heap, addr, obj) ==
    [a \in DOMAIN heap \cup {addr} |-> IF a = addr THEN obj ELSE heap[a]]

\* the caller's objects when search is entered
CallerHeap(metadata_filters) ==
    IF metadata_filters.is_none THEN <<>>
    ELSE LET d  == metadata_filters.d
             h1 == Store(<<>>, "mf", [k \in DOMAIN d |->
                                         IF k = "$and" THEN "and" ELSE d[k]])
         IN  IF "$and" \in DOMAIN d THEN Store(h1, "and", d["$and"]) ELSE h1

\* the mapping the dict at addr is, its list read through the reference
DictValue(heap, addr) ==
    [k \in DOMAIN heap[addr] |->
        IF k = "$and" THEN heap[heap[addr][k]] ELSE heap[addr][k]]

\* a variant of dict_copy: the dict itself is handed back
dict_copy_alias(heap, addr) == [heap |-> heap, addr |-> addr]

\* dict.copy(): a new dict with the same values; the list under $and is shared
dict_copy(heap, addr) == [heap |-> Store(heap, "db", heap[addr]), addr |-> "db"]

\* search, lines 167-186, on the objects: the heap these lines leave, the
\* address of db_filters and path_contains_filter
FilterObjects(metadata_filters) ==
    LET h0 == CallerHeap(metadata_filters)
        c  == IF Truthy(metadata_filters) THEN dict_copy(h0, "mf")
              ELSE [heap |-> Store(h0, "db", <<>>), addr |-> "db"]
        db == c.addr
    IN  IF "$and" \in DOMAIN c.heap[db]
        THEN LET e  == extract_path_filter(c.heap[c.heap[db]["$and"]])
                 h1 == Store(c.heap, "rem", e.remaining_conditions)
                 h2 == Store(h1, db, [h1[db] EXCEPT !["$and"] = "rem"])
             IN  [heap |-> IF h2[h2[db]["$and"]] = <<>>
                           THEN Store(h2, db, DictWithout(h2[db], "$and"))
                           ELSE h2,
                  db   |-> db,
                  path_contains_filter |-> e.path_contains_filter]
        ELSE IF "relative_path" \in DOMAIN c.heap[db]
                /\ "$contains" \in DOMAIN c.heap[db]["relative_path"]
        THEN [heap |-> Store(c.heap, db, DictWithout(c.heap[db], "relative_path")),
              db   |-> db,
              path_contains_filter |-> c.heap[db]["relative_path"]["$contains"]]
        ELSE [heap |-> c.heap, db |-> db, path_contains_filter |-> NoPathFilter]

\* search, lines 167-186, on the values: the mapping db_filters is and
\* path_contains_filter when the query is built
SplitFilters(metadata_filters) ==
    LET db_filters == IF Truthy(metadata_filters) THEN metadata_filters.d ELSE <<>>
    IN  IF "$and" \in DOMAIN db_filters
        THEN LET e  == extract_path_filter(db_filters["$and"])
                 d2 == [db_filters EXCEPT !["$and"] = e.remaining_conditions]
             IN  [db_filters |-> IF d2["$and"] = <<>> THEN DictWithout(d2, "$and")
                                 ELSE d2,
                  path_contains_filter |-> e.path_contains_filter]
        ELSE IF "relative_path" \in DOMAIN db_filters
                /\ "$contains" \in DOMAIN db_filters["relative_path"]
        THEN [db_filters |-> DictWithout(db_filters, "relative_path"),
              path_contains_filter |-> db_filters["relative_path"]["$contains"]]
        ELSE [db_filters |-> db_filters, path_contains_filter |-> NoPathFilter]

\* the caller's metadata_filters as it is when search has returned
FiltersAfter(metadata_filters, reached) ==
    IF metadata_filters.is_none THEN None
    ELSE Dict(DictValue(IF reached THEN FilterObjects(metadata_filters).heap
                        ELSE CallerHeap(metadata_filters), "mf"))

\* the items of the persistent indexes search is run on: three entries of
\* the local directory and three files of the repository, as the two
\* indexing variants store them
SearchLocalBatch ==
    LocalBatch(<<os_path_join(LocalDir, <<"s">>), os_path_join(<<"d","/","s">>, <<"t",".","p","y">>),
                 os_path_join(LocalDir, <<"m",".","p","y">>)>>, LocalDir)

RepoFile(file_path) == FileMeta(BlobAt(<<"g","i","t","h","u","b",".","c","o","m","/","o","/","r">>, file_path))

SearchRepoBatch ==
    RepoBatch(<<RepoFile(<<"s","r","c","/","z",".","p","y">>), RepoFile(<<"m",".","p","y">>),
                RepoFile(<<".","e","n","v">>)>>, <<"g","i","t","h","u","b",".","c","o","m","/","o","/","r">>, {})

\* the index contents a SemanticExplorer is constructed on in SpecSearch
SearchIndexes ==
    LET small == Upsert(EmptyCollection, SearchLocalBatch.ids, SearchLocalBatch.metadatas)
    IN  {EmptyCollection, small,
         Upsert(small, SearchRepoBatch.ids, SearchRepoBatch.metadatas)}

\* the orders in which the store may rank the items for a query embedding:
\* each item is the nearest in one of them and the farthest in another
Rankings ==
    LET base == SearchLocalBatch.ids \o SearchRepoBatch.ids
        n    == Len(base)
    IN  {[j \in 1..n |-> base[((j + k - 1) % n) + 1]] : k \in 0..(n - 1)}

\* the store's test of one field condition of a where filter
FieldMatches(metadata, key, cond) ==
    "$eq" \in DOMAIN cond => metadata[key] = cond["$eq"]

\* the store's test of a where filter on the metadata of an item
WhereMatches(metadata, where) ==
    \A key \in DOMAIN where :
        IF key = "$and"
        THEN \A k \in 1..Len(where[key]) :
                \A f \in DOMAIN where[key][k] :
                    FieldMatches(metadata, f, where[key][k][f])
        ELSE FieldMatches(metadata, key, where[key])

\* collection.query(query_embeddings, n_results[, where]): the n_results
\* nearest items among those the where filter keeps, nearest first, with
\* their distances (all equal when tie, else growing with the rank up to 2)
StoreQuery(coll, n_results, has_where, where, ranking, tie) ==
    LET hits == SelectSeq(ranking, LAMBDA id :
                    /\ id \in DOMAIN coll
                    /\ has_where => WhereMatches(coll[id], where))
    IN  [j \in 1..Min(n_results, Len(hits)) |->
            [id       |-> hits[j],
             distance |-> IF tie THEN 0 ELSE Min(j - 1, 2),
             metadata |-> coll[hits[j]]]]

\* a variant of EmptyIndexReturns: search does not look at the count
EmptyIndexReturns_never(count) == FALSE

\* search: `if self.collection.count() == 0: return []`
EmptyIndexReturns(count) == count = 0

\* a variant of OutputFull: one result more is taken before the break
OutputFull_late(len, n_results) == len > n_results

\* search: `if len(output) >= n_results: break`
OutputFull(len, n_results) == len >= n_results

\* a variant of CandidateCount: the whole index is asked for
CandidateCount_all(n_results, count) == count

\* search: "n_results": min(n_results * 5, self.collection.count())
CandidateCount(n_results, count) == Min(n_results * 5, count)

\* search: one entry of the output
ResultOf(candidate) ==
    [similarity |-> 1 - candidate.distance,
     path       |-> candidate.metadata.relative_path,
     is_folder  |-> candidate.metadata.is_dir]

\* search: the loop over results['distances'][0] from candidate i on
RECURSIVE Collect(_, _, _, _, _)
Collect(candidates, i, output, n_results, path_contains_filter) ==
    IF i > Len(candidates) THEN output
    ELSE IF /\ path_contains_filter # <<>>
            /\ ~Contains(path_contains_filter, candidates[i].metadata.relative_path)
    THEN Collect(candidates, i + 1, output, n_results, path_contains_filter)
    ELSE LET output2 == Append(output, ResultOf(candidates[i]))
         IN  IF OutputFull(Len(output2), n_results) THEN output2
             ELSE Collect(candidates, i + 1, output2, n_results, path_contains_filter)

\* search(query, n_results, metadata_filters): the list it returns and the
\* calls it makes on the encoder and the store.  The query text acts through
\* the ranking its embedding gives the items.
search(n_results, metadata_filters, ranking, tie) ==
    IF EmptyIndexReturns(Count) THEN [output |-> <<>>, calls |-> <<>>]
    ELSE LET split     == SplitFilters(metadata_filters)
             asked     == CandidateCount(n_results, Count)
             has_where == DOMAIN split.db_filters # {}
             results   == StoreQuery(collection, asked, has_where,
                                     split.db_filters, ranking, tie)
         IN  [output |-> IF results = <<>> THEN <<>>
                         ELSE Collect(results, 1, <<>>, n_results,
                                      split.path_contains_filter),
              calls  |-> <<[op |-> "encode"],
                           [op |-> "query", n_results |-> asked,
                            has_where |-> has_where, where |-> split.db_filters,
                            returned |-> results]>>]

\* a search call
Search(n_results, metadata_filters, ranking, tie) ==
    /\ ret' = [op    |-> "search",
               args  |-> [n_results |-> n_results,
                          metadata_filters |-> metadata_filters],
               val   |-> search(n_results, metadata_filters, ranking, tie).output,
               after |-> FiltersAfter(metadata_filters, ~EmptyIndexReturns(Count)),
               calls |-> search(n_results, metadata_filters, ranking, tie).calls]
    /\ UNCHANGED <<collection, is_cancelled, gen, gone, settled, nruns>>

\* a SemanticExplorer constructed on a persistent index
InitSearch ==
    /\ is_cancelled = FALSE
    /\ gen = NewGen
    /\ gone = {}
    /\ ret = NoCall
    /\ settled = {}
    /\ nruns = 0
    /\ collection \in SearchIndexes

NextSearch ==
    \/ \E n_results \in 1..MaxN, metadata_filters \in FilterExprs,
          ranking \in Rankings, tie \in BOOLEAN :
         Search(n_results, metadata_filters, ranking, tie)
    \/ ClearIndex

SpecSearch == InitSearch /\ [][NextSearch]_vars

\* the strings s of the "relative_path contains s" conditions of a filter
\* expression: of its one field condition, or of each condition under $and
PathSubstrings(metadata_filters) ==
    LET d     == metadata_filters.d
        conds == IF "$and" \in DOMAIN d THEN Range(d["$and"]) ELSE {d}
    IN  {cond["relative_path"]["$contains"] :
            cond \in {c \in conds : IsPathContains(c)}}

\* C5 as stated: every result of a search whose filter expression holds a
\* condition "relative_path contains s" has a path that contains s, for each
\* such condition of the expression, whatever candidates the store returned.
C5_AsStated ==
    ret.op = "search"
      => \A s \in PathSubstrings(ret.args.metadata_filters) :
            \A k \in DOMAIN ret.val : Contains(s, ret.val[k].path)

\* a search with two "relative_path contains" conditions under $and has
\* returned every candidate that passes the last of them
C5_Witness ==
    /\ ret.op = "search"
    /\ Cardinality(PathSubstrings(ret.args.metadata_filters)) = 2
    /\ ret.args.n_results = 2
    /\ Len(ret.val) = 2
    /\ \E k \in DOMAIN ret.val :
          \E s \in PathSubstrings(ret.args.metadata_filters) :
             ~Contains(s, ret.val[k].path)

\* the candidates the store returned to the last search call
Returned == IF ret.calls = <<>> THEN <<>> ELSE ret.calls[2].returned

\* xs is ys with some entries left out, the order kept
IsSubsequence(xs, ys) ==
    \E f \in [DOMAIN xs -> DOMAIN ys] :
        /\ \A i, j \in DOMAIN xs : i < j => f[i] < f[j]
        /\ \A i \in DOMAIN xs : xs[i] = ys[f[i]]

\* C7: a search for n >= 1 results returns at most n results, and they are
\* the results of some of the candidates the store returned, in the store's
\* order: distances do not fall along the candidates and similarities
\* (1 - distance) do not rise along the results.
C7_AtMostNInStoreOrder ==
    ret.op = "search"
      => /\ Len(ret.val) <= ret.args.n_results
         /\ IsSubsequence(ret.val, [k \in DOMAIN Returned |-> ResultOf(Returned[k])])
         /\ \A i, j \in DOMAIN Returned :
               i < j => Returned[i].distance <= Returned[j].distance
         /\ \A i, j \in DOMAIN ret.val :
               i < j => ret.val[i].similarity >= ret.val[j].similarity

\* a search for 2 results on the index of six items got six candidates and
\* returned two of them, not the nearest one, the first more similar
C7_Witness ==
    /\ ret.op = "search" /\ ret.args.n_results = 2
    /\ Count > 5
    /\ Len(Returned) = Count
    /\ Len(ret.val) = 2
    /\ ret.val[1] # ResultOf(Returned[1])
    /\ ret.val[1].similarity > ret.val[2].similarity

\* C8: a search on an empty index returns the empty list, whatever the
\* query, the result count and the filter, and calls neither the encoder nor
\* the store.
C8_EmptyIndexNoQuery ==
    (ret.op = "search" /\ Count = 0)
      => ret.val = <<>> /\ ret.calls = <<>>

\* a search with a filter of two conditions has returned on an empty index
C8_Witness ==
    /\ ret.op = "search" /\ Count = 0
    /\ Truthy(ret.args.metadata_filters)
    /\ "$and" \in DOMAIN ret.args.metadata_filters.d
    /\ ret.val = <<>>

(***************************************************************************)
(* Properties of the status stream, the index and the ids.                 *)
(***************************************************************************)
\* a next() that yields the last status of a run
LastYieldStep == PullStep /\ gen.pc # "final" /\ gen'.pc = "final"

\* cancel_indexing was called on the run after its first status was pulled
\* and before its last was yielded
CancelledWhileRunning(g) == g.creq.set /\ g.creq.pc \in RunningYields

\* C11 as stated: the last status every run yields, whatever the source, the
\* cancellation timing and the failures met, reports the item count of the
\* index and is phrased "cancelled" when the run was cancelled, "complete"
\* when it was not.  Read for a run cancelled while it was running and for a
\* run on which cancel_indexing was not called.
C11_AsStated ==
    [][LastYieldStep
         => /\ LastOf(gen'.out).kind \in {"cancelled", "complete"}
            /\ LastOf(gen'.out).num = Cardinality(DOMAIN collection')
            /\ CancelledWhileRunning(gen') => LastOf(gen'.out).kind = "cancelled"
            /\ ~gen'.creq.set => LastOf(gen'.out).kind = "complete"]_vars

\* C11: the last status of a run is the "Error: ..." string, without a count,
\* exactly when the root is no directory or the repository listing failed;
\* the last status of every other run reports the item count the index has
\* when it is yielded, phrased "cancelled" when cancel_indexing was called
\* after the run's first status was pulled, "complete" when it was not called
\* on the run.
C11_LastStatusReportsCount ==
    [][LastYieldStep
         => IF \/ (gen.pc = "created" /\ ~IsRepositoryUrl(gen.arg) /\ ~os_path_isdir(gen.arg))
               \/ (gen.pc = "r_fetch" /\ gen'.items = <<>>)
            THEN LastOf(gen'.out) = Status("error", 0, 0, 0)
            ELSE /\ LastOf(gen'.out).kind \in {"cancelled", "complete"}
                 /\ LastOf(gen'.out).num = Cardinality(DOMAIN collection')
                 /\ CancelledWhileRunning(gen') => LastOf(gen'.out).kind = "cancelled"
                 /\ ~gen'.creq.set => LastOf(gen'.out).kind = "complete"]_vars

\* a repository run cancelled at the status of its first batch has yielded
\* "cancelled" with the count of the files of that batch it could fetch
C11_Witness ==
    /\ gen.pc = "final" /\ IsRepositoryUrl(gen.arg)
    /\ gen.creq.set /\ gen.creq.pc = "r_batch" /\ gen.creq.nb = 1
    /\ gen.nbatch = 1 /\ gen.alone
    /\ LastOf(gen.out).kind = "cancelled"
    /\ LastOf(gen.out).num = Count
    /\ Count > 0 /\ Count < Len(gen.items)

\* C12: no step other than a clear_index call takes an id out of the
\* collection: index_directory runs (complete, cancelled or failed),
\* cancel_indexing and get_status calls and deletions in the source tree leave
\* every id in place, so the item count does not fall between two clear_index
\* calls and the item of a deleted file stays in the index when the directory
\* is indexed again.
C12_OnlyClearRemoves ==
    [][~ClearStep
         => /\ DOMAIN collection \subseteq DOMAIN collection'
            /\ Cardinality(DOMAIN collection') >= Cardinality(DOMAIN collection)]_vars

\* the local directory has been indexed completely a second time after its
\* file m.py was deleted: the scan no longer lists the file, the index still
\* holds its item and the item an earlier session left
C12_Witness ==
    /\ gen.pc = "final" /\ IsLocalRun /\ nruns = 2
    /\ LastOf(gen.out).kind = "complete"
    /\ gen.alone /\ gen.fs_same /\ gen.nbatch = 2
    /\ os_path_join(LocalDir, <<"m",".","p","y">>) \in gone
    /\ \A k \in 1..Len(gen.items) : gen.items[k] # os_path_join(LocalDir, <<"m",".","p","y">>)
    /\ LocalId(os_path_join(LocalDir, <<"m",".","p","y">>)) \in DOMAIN collection
    /\ LocalId(os_path_join(LocalDir, <<"o","l","d",".","p","y">>)) \in DOMAIN collection
    /\ Count = Len(gen.items) + 2

(***************************************************************************)
(* Properties of search.                                                   *)
(***************************************************************************)
\* the field conditions of a filter expression, in order: the list under
\* $and, or the one condition the mapping is
FilterConditions(metadata_filters) ==
    IF ~Truthy(metadata_filters) THEN <<>>
    ELSE IF "$and" \in DOMAIN metadata_filters.d THEN metadata_filters.d["$and"]
    ELSE <<metadata_filters.d>>

\* the field conditions of the where argument of a collection.query call
NativeConditions(call) ==
    IF ~call.has_where THEN <<>>
    ELSE IF "$and" \in DOMAIN call.where THEN call.where["$and"]
    ELSE <<call.where>>

\* C13: the where filter search hands to collection.query holds no
\* "relative_path contains" condition and holds every other condition of the
\* filter expression, unchanged and in order, under $and when the expression
\* had them under $and; when no other condition is left, the query is made
\* without a where filter.
C13_NativeFilterIsTheRest ==
    (ret.op = "search" /\ ret.calls # <<>>)
      => LET call   == ret.calls[2]
             others == SelectSeq(FilterConditions(ret.args.metadata_filters),
                                 LAMBDA cond : ~IsPathContains(cond))
         IN  /\ call.op = "query"
             /\ NativeConditions(call) = others
             /\ \A k \in 1..Len(NativeConditions(call)) :
                   ~IsPathContains(NativeConditions(call)[k])
             /\ others = <<>> <=> ~call.has_where
             /\ call.has_where
                  => ("$and" \in DOMAIN call.where
                        <=> "$and" \in DOMAIN ret.args.metadata_filters.d)

\* a search filtered on "source_type is local and relative_path contains s/"
\* has queried the store with the source_type condition alone and returned
\* the one local item under s/
C13_Witness ==
    /\ ret.op = "search" /\ ret.calls # <<>>
    /\ ret.args.metadata_filters = Dict("$and" :> <<CondLocal, CondS>>)
    /\ ret.calls[2].has_where
    /\ ret.calls[2].where = ("$and" :> <<CondLocal>>)
    /\ Len(Returned) = 3
    /\ Len(ret.val) = 1
    /\ ret.val[1].path = <<"s","/","t",".","p","y">>

\* the substring search applies as its post-filter (<<>> when it applies none)
PostFilter == SplitFilters(ret.args.metadata_filters).path_contains_filter

\* the candidates the store returned that pass the post-filter, in the
\* store's order
Survivors ==
    SelectSeq(Returned, LAMBDA candidate :
        PostFilter # <<>> => Contains(PostFilter, candidate.metadata.relative_path))

\* C14: a search that reaches the store asks it for min(n * 5, item count)
\* candidates and returns the results of the first n candidates that pass the
\* post-filter, in the store's order: min(n, number of fetched candidates that
\* pass) results.  An item that passes the post-filter but is not among the
\* fetched candidates is not returned.
C14_FirstNOfFetched ==
    (ret.op = "search" /\ ret.calls # <<>>)
      => LET n == ret.args.n_results
         IN  /\ ret.calls[2].n_results = Min(n * 5, Cardinality(DOMAIN collection))
             /\ Len(Returned) <= ret.calls[2].n_results
             /\ Len(ret.val) = Min(n, Len(Survivors))
             /\ ret.val = [k \in 1..Min(n, Len(Survivors)) |-> ResultOf(Survivors[k])]

\* a search for 1 result with "relative_path contains s/" on the index of six
\* items fetched five candidates, none of them under s/, and returned nothing
\* although the index holds s/t.py
C14_Witness ==
    /\ ret.op = "search" /\ ret.calls # <<>>
    /\ ret.args.n_results = 1
    /\ ret.args.metadata_filters = Dict(CondS)
    /\ Count = 6
    /\ ret.calls[2].n_results = 5 /\ Len(Returned) = 5
    /\ ret.val = <<>>
    /\ \E id \in DOMAIN collection : Contains(<<"s","/">>, collection[id].relative_path)

(***************************************************************************)
(* repo_loader.is_excluded on the paths of a repository tree.              *)
(***************************************************************************)
\* segments of a path
MaxSegs == 3

\* the names the segments of a listed path are drawn from
Segs ==
    {<<"b","u","i","l","d">>, <<"r","e","b","u","i","l","d">>, <<"d","i","s","t">>, <<"m","y","d","i","s","t">>, <<"n","o","d","e","_","m","o","d","u","l","e","s">>, <<".","g","i","t">>,
     <<"s","r","c">>, <<"x",".","p","y">>, <<"a",".","p","n","g">>, <<".","g","i","t","i","g","n","o","r","e">>}

\* the paths is_excluded is called with
ListedPaths ==
    {Join(segs, "/") : segs \in UNION {[1..n -> Segs] : n \in 1..MaxSegs}}

\* the is_excluded(filepath) call of get_repo_files on a listed path
IsExcluded(filepath) ==
    /\ ret.op = "listed"
    /\ ret' = [op |-> "is_excluded", args |-> filepath, val |-> is_excluded(filepath)]
    /\ UNCHANGED <<collection, is_cancelled, gen, gone, settled, nruns>>

\* a path of the listing is at hand
InitExclude ==
    /\ is_cancelled = FALSE
    /\ gen = NewGen
    /\ gone = {}
    /\ settled = {}
    /\ nruns = 0
    /\ collection = EmptyCollection
    /\ ret \in {[op |-> "listed", args |-> filepath] : filepath \in ListedPaths}

NextExclude == IsExcluded(ret.args)

SpecExclude == InitExclude /\ [][NextExclude]_vars

\* a whole segment of the path is the directory name of a pattern
HasPatternSegment(filepath) ==
    \E k \in 1..Len(Split(filepath, "/")) :
        (Split(filepath, "/")[k] \o <<"/">>) \in EXCLUDE_PATTERNS

\* neither the file name rule nor the extension rule names the path
OnlyPatternRule(filepath) ==
    /\ Lower(PathName(filepath)) \notin EXCLUDE_FILENAMES
    /\ Lower(PathSuffix(filepath)) \notin EXCLUDE_EXTENSIONS

\* C15 as stated: a path that the file name and extension rules do not name
\* is excluded exactly when one of its whole segments is the directory name
\* of a pattern (build, dist, .git, node_modules, ...); a path where a
\* pattern's text is only the end of a longer name (rebuild, mydist/x.py) is
\* not excluded.
C15_AsStated ==
    (ret.op = "is_excluded" /\ OnlyPatternRule(ret.args))
      => (ret.val <=> HasPatternSegment(ret.args))

\* is_excluded has excluded mydist/x.py, a path without a pattern segment
\* that the file name and extension rules do not name
C15_Witness ==
    /\ ret.op = "is_excluded"
    /\ ret.args = <<"m","y","d","i","s","t","/","x",".","p","y">>
    /\ OnlyPatternRule(ret.args) /\ ~HasPatternSegment(ret.args)
    /\ ret.val

(***************************************************************************)
(* The ids of the two indexing variants, as functions of what is indexed.  *)
(***************************************************************************)
\* what an indexed entry is: a path under a local root, or a file of the
\* repository at a URL
Item(source_type, source, path) ==
    [source_type |-> source_type, source |-> source, path |-> path]

\* two URLs of the GitHub repository o/r (get_repo_files reads owner and
\* repository from the last two parts) and the URL of a Space
IdUrls ==
    {<<"g","i","t","h","u","b",".","c","o","m","/","o","/","r">>, <<"g","i","t","h","u","b",".","c","o","m","/","o","/","r",":",":","x","/","o","/","r">>, <<"h","u","g","g","i","n","g","f","a","c","e",".","c","o","/","s","p","a","c","e","s","/","o","/","s">>}

\* local roots: a directory, its subdirectory s and another directory
IdRoots == {LocalDir, os_path_join(LocalDir, <<"s">>), <<"e">>}

\* relative paths of entries
IdPaths == {<<"m",".","p","y">>, <<"t",".","p","y">>, <<"s","/","t",".","p","y">>, <<"x","/","o","/","r",":",":","m",".","p","y">>, <<"g","i","t","h","u","b",".","c","o","m","/","o","/","r">>}

IdItems ==
    {Item("local", root, path) : root \in IdRoots, path \in IdPaths}
      \cup {Item("repository", url, path) : url \in IdUrls, path \in IdPaths}

\* unique_id of an entry, as the variant that indexes it builds it
UniqueId(item) ==
    IF item.source_type = "local"
    THEN LocalId(os_path_join(item.source, item.path))
    ELSE RepoId(item.source, item.path)

\* the ids of two entries are built
BuildIds(a, b) ==
    /\ ret.op = "entries"
    /\ ret' = [op |-> "unique_id", a |-> a, b |-> b,
               id_a |-> UniqueId(a), id_b |-> UniqueId(b)]
    /\ UNCHANGED <<collection, is_cancelled, gen, gone, settled, nruns>>

\* two entries to index are at hand
InitIds ==
    /\ is_cancelled = FALSE
    /\ gen = NewGen
    /\ gone = {}
    /\ settled = {}
    /\ nruns = 0
    /\ collection = EmptyCollection
    /\ ret \in {[op |-> "entries", a |-> a, b |-> b] : a \in IdItems, b \in IdItems}

NextIds == BuildIds(ret.a, ret.b)

SpecIds == InitIds /\ [][NextIds]_vars

\* C16 as stated: two entries that differ in source type, source or path
\* have different ids: a local entry and a repository file never share one,
\* and neither do two distinct (repository URL, file path) pairs, nor two
\* distinct (local root, relative path) pairs.
C16_AsStated ==
    (ret.op = "unique_id" /\ ret.a # ret.b) => ret.id_a # ret.id_b

\* the file x/o/r::m.py listed through one URL of the repository o/r and the
\* file m.py listed through another URL of it have got the same id
C16_Witness ==
    /\ ret.op = "unique_id"
    /\ ret.a = Item("repository", <<"g","i","t","h","u","b",".","c","o","m","/","o","/","r">>, <<"x","/","o","/","r",":",":","m",".","p","y">>)
    /\ ret.b = Item("repository", <<"g","i","t","h","u","b",".","c","o","m","/","o","/","r",":",":","x","/","o","/","r">>, <<"m",".","p","y">>)
    /\ ret.id_a = ret.id_b
    /\ IsRepositoryUrl(ret.a.source) /\ IsRepositoryUrl(ret.b.source)
    /\ ~get_repo_files(ret.a.source, TRUE).error
    /\ ~get_repo_files(ret.b.source, TRUE).error

(***************************************************************************)
(* Properties of the progress fractions and of cancellation.               *)
(***************************************************************************)
\* a fraction is the quotient n / d
FracIs(f, n, d) == f.den > 0 /\ d > 0 /\ f.num * d = n * f.den

\* the callback is called before each yield but those of the "cancelled" and
\* "Error" statuses, which end the stream: its k-th call goes with out[k]
Reported(out) == SelectSeq(out, LAMBDA s : s.kind \notin {"cancelled", "error"})

\* C17: every fraction handed to the progress callback lies in [0,1]; the
\* fraction handed over with the status of a batch of a local run is
\* (entries of the batches before it) / (entries scanned); every fraction of
\* a repository run after the one of the listing phase lies in [0.05, 1],
\* and the one handed over with the status of a batch is
\* 0.05 + 0.95 * (files of the batches before it) / (files listed).
C17_ProgressFractions ==
    gen.pc \notin {"none", "created", "raised"}
      => /\ Len(gen.progress) = Len(Reported(gen.out))
         /\ \A k \in 1..Len(gen.progress) :
              LET f     == gen.progress[k]
                  s     == gen.out[k]
                  total == Len(gen.items)
                  bsize == IF IsLocalRun THEN local_batch_size ELSE repo_batch_size
                  done  == (s.num - 1) * bsize
              IN  /\ f.den > 0 /\ 0 <= f.num /\ f.num <= f.den
                  /\ (IsLocalRun /\ s.kind = "batch")
                       => /\ done < total
                          /\ FracIs(f, done, total)
                  /\ (~IsLocalRun /\ k > 1) => 5 * f.den <= 100 * f.num
                  /\ (~IsLocalRun /\ s.kind = "batch")
                       => /\ done < total
                          /\ FracIs(f, 5 * total + 95 * done, 100 * total)
                  /\ s.kind = "complete" => FracIs(f, 1, 1)

\* a repository run over two batches has completed: the callback got 0 for
\* the listing phase, 0.05 twice, a fraction strictly between 0.05 and 1 with
\* the second batch, and 1
C17_Witness ==
    /\ gen.pc = "final" /\ IsRepositoryUrl(gen.arg)
    /\ LastOf(gen.out).kind = "complete"
    /\ Len(gen.progress) = 5
    /\ FracIs(gen.progress[1], 0, 1)
    /\ FracIs(gen.progress[2], 5, 100)
    /\ FracIs(gen.progress[3], 5, 100)
    /\ FracIs(gen.progress[4], 5 * Len(gen.items) + 95 * repo_batch_size, 100 * Len(gen.items))
    /\ 5 * gen.progress[4].den < 100 * gen.progress[4].num
    /\ gen.progress[4].num < gen.progress[4].den
    /\ FracIs(gen.progress[5], 1, 1)

\* C18 as stated: a run on which cancel_indexing was called after
\* index_directory(...) made it, the time before its first status is pulled
\* included, ends with the "cancelled" status and processes no batch beyond
\* those announced when the call was made.  Read for calls made before the
\* run's last status is yielded and for runs that do not end with "Error".
C18_AsStated ==
    (/\ gen.pc = "final"
     /\ gen.creq.set /\ gen.creq.pc # "final"
     /\ LastOf(gen.out).kind # "error")
      => /\ LastOf(gen.out).kind = "cancelled"
         /\ gen.nbatch <= gen.creq.nb

\* cancel_indexing was called between index_directory("d") and the first
\* next(), and not again; the run has processed both of its batches and ended
\* with "complete"
C18_Witness ==
    /\ gen.pc = "final" /\ IsLocalRun
    /\ gen.creq.set /\ gen.creq.pc = "created"
    /\ ~is_cancelled
    /\ LastOf(gen.out).kind = "complete"
    /\ gen.nbatch = 2 /\ gen.wrote = 2
    /\ Len(gen.items) > local_batch_size

\* the batches of the entries a run has enumerated
BatchesEnumerated ==
    LET bsize == IF IsLocalRun THEN local_batch_size ELSE repo_batch_size
    IN  (Len(gen.items) + bsize - 1) \div bsize

\* the run has enumerated its entries ("Scan complete..." or "Found ...
\* files" was yielded) and has yielded its last status
EndedAfterEnumeration ==
    /\ gen.pc = "final"
    /\ \E k \in 1..Len(gen.out) : gen.out[k].kind = "found"

\* C19 as stated: a run that has enumerated its entries ends with "Build
\* cancelled" only if it left at least one of the enumerated batches
\* unprocessed, and ends with "Index build complete" when it has processed
\* every enumerated batch.
C19_AsStated ==
    EndedAfterEnumeration
      => /\ LastOf(gen.out).kind = "cancelled" => gen.nbatch < BatchesEnumerated
         /\ gen.nbatch = BatchesEnumerated => LastOf(gen.out).kind = "complete"

\* cancel_indexing was called at the status of the last batch of a local
\* run: the run has processed and upserted both batches, every scanned entry
\* is in the index, and its last status is "Build cancelled"
C19_Witness ==
    /\ EndedAfterEnumeration /\ IsLocalRun
    /\ gen.creq.set /\ gen.creq.pc = "l_batch" /\ gen.creq.nb = 2
    /\ BatchesEnumerated = 2
    /\ gen.nbatch = 2 /\ gen.wrote = 2 /\ gen.skipped = {}
    /\ \A k \in 1..Len(gen.items) : LocalId(gen.items[k]) \in DOMAIN collection
    /\ LastOf(gen.out).kind = "cancelled"

\* C19: a run that has enumerated its entries ends with "Build cancelled"
\* when cancel_indexing was called while it was running, and only if it was
\* called on the run before its last status; it has then processed the
\* batches announced before the call, which may be all of the enumerated
\* batches.  It ends with "Index build complete" when cancel_indexing was not
\* called on it, and a run that ends so has processed every enumerated batch.
C19_FinalStatusAndWork ==
    EndedAfterEnumeration
      => /\ LastOf(gen.out).kind \in {"cancelled", "complete"}
         /\ CancelledWhileRunning(gen) => LastOf(gen.out).kind = "cancelled"
         /\ LastOf(gen.out).kind = "cancelled"
              => /\ gen.creq.set /\ gen.creq.pc # "final"
                 /\ gen.nbatch = gen.creq.nb
                 /\ gen.nbatch <= BatchesEnumerated
         /\ ~gen.creq.set => LastOf(gen.out).kind = "complete"
         /\ LastOf(gen.out).kind = "complete" => gen.nbatch = BatchesEnumerated

\* C20: a search call leaves the caller's metadata_filters, the list under
\* its $and key included, as it was when the call was made, whether or not a
\* "relative_path contains" condition was extracted, and leaves the
\* collection and the cancellation flag as they were.
C20_SearchChangesNothing ==
    [][(ret'.op = "search" /\ ret' # ret)
         => /\ ret'.after = ret'.args.metadata_filters
            /\ collection' = collection
            /\ is_cancelled' = is_cancelled]_vars

\* a search filtered on "relative_path contains .py and source_type is
\* local" has queried the store with the source_type condition alone, and
\* the caller's mapping still holds both conditions
C20_Witness ==
    /\ ret.op = "search" /\ ret.calls # <<>>
    /\ ret.args.metadata_filters = Dict("$and" :> <<CondPy, CondLocal>>)
    /\ ret.calls[2].where = ("$and" :> <<CondLocal>>)
    /\ ret.after = Dict("$and" :> <<CondPy, CondLocal>>)
    /\ Count = 6
    /\ Len(ret.val) >= 1

====
